---- MODULE Spec2Model ----
(***************************************************************************)
(* Model of MockApi (src/index.ts): the registrar that turns a mock        *)
(* descriptor into a RegExp matcher, registers it with page.route and      *)
(* fulfils every intercepted request from the captured descriptor fields.  *)
(*                                                                         *)
(* Strings are sequences of one-character strings, so that escaping,       *)
(* encoding, replacement and regular-expression matching are computed      *)
(* character by character as the JavaScript runtime computes them.         *)
(***************************************************************************)
EXTENDS Naturals, Sequences, FiniteSets

VARIABLES env, routes, registered, settled, fulfilled

vars == <<env, routes, registered, settled, fulfilled>>

(***************************************************************************)
(* JavaScript values.  t is the result of typeof, v the string the value   *)
(* converts to in a template literal, e the entries of a mapping in        *)
(* Object.entries order.                                                   *)
(***************************************************************************)
Undefined == [t |-> "undefined", v |-> <<"u", "n", "d", "e", "f", "i", "n", "e", "d">>, e |-> <<>>]

Str(s) == [t |-> "string", v |-> s, e |-> <<>>]

Num(digits) == [t |-> "number", v |-> digits, e |-> <<>>]

Obj(entries) == [t |-> "object", v |-> <<>>, e |-> entries]

Json(text) == [t |-> "object", v |-> text, e |-> <<>>]

\* `${x}`
ToString(x) == x.v

\* x.name: a descriptor object has the property when the caller gave it, a
\* string primitive has none of the descriptor's properties.
Prop(x, name) == IF name \in DOMAIN x THEN x[name] ELSE Undefined

\* Object.entries(x || [])
Entries(x) == IF x.t = "object" THEN x.e ELSE <<>>

(***************************************************************************)
(* String operations of the runtime.                                       *)
(***************************************************************************)
RECURSIVE Join(_, _)
Join(ss, sep) ==
    IF ss = <<>> THEN <<>>
    ELSE IF Len(ss) = 1 THEN Head(ss)
    ELSE Head(ss) \o sep \o Join(Tail(ss), sep)

\* Position of the first occurrence of pat in s, 0 when there is none.
IndexOf(s, pat) ==
    LET hits == {i \in 1..(Len(s) + 1) :
                    /\ i + Len(pat) - 1 <= Len(s)
                    /\ SubSeq(s, i, i + Len(pat) - 1) = pat}
    IN  IF hits = {} THEN 0 ELSE CHOOSE i \in hits : \A j \in hits : i <= j

\* String.prototype.replace with a string pattern: the first occurrence only.
\* (The replacement is an encodeURIComponent result, which holds no "$".)
StringReplace(s, pat, rep) ==
    LET i == IndexOf(s, pat)
    IN  IF i = 0 THEN s
        ELSE SubSeq(s, 1, i - 1) \o rep \o SubSeq(s, i + Len(pat), Len(s))

\* path.replaceAll("/", "\\/")
RECURSIVE EscapeSlashes(_)
EscapeSlashes(s) ==
    IF s = <<>> THEN <<>>
    ELSE (IF Head(s) = "/" THEN <<"\\", "/">> ELSE <<Head(s)>>) \o EscapeSlashes(Tail(s))

\* Characters encodeURIComponent leaves as they are (of the model's alphabet).
UriUnreserved ==
    {"a", "b", "h", "i", "j", "p", "x", "y", "z", "u", "n", "d", "e", "f",
     "0", "1", "2", "4", "-", "_", ".", "!", "~", "*", "'", "(", ")"}

PercentCode(c) ==
    CASE c = " "  -> <<"%", "2", "0">>
      [] c = "/"  -> <<"%", "2", "F">>
      [] c = "?"  -> <<"%", "3", "F">>
      [] c = "="  -> <<"%", "3", "D">>
      [] c = "&"  -> <<"%", "2", "6">>
      [] c = "%"  -> <<"%", "2", "5">>
      [] c = "$"  -> <<"%", "2", "4">>
      [] c = "{"  -> <<"%", "7", "B">>
      [] c = "}"  -> <<"%", "7", "D">>
      [] c = "^"  -> <<"%", "5", "E">>
      [] c = "\\" -> <<"%", "5", "C">>
      [] c = ":"  -> <<"%", "3", "A">>

RECURSIVE EncodeChars(_)
EncodeChars(s) ==
    IF s = <<>> THEN <<>>
    ELSE (IF Head(s) \in UriUnreserved THEN <<Head(s)>> ELSE PercentCode(Head(s)))
         \o EncodeChars(Tail(s))

\* A faulty variant: the value is put into the path as it is.
EncodeURIComponentRaw(x) == ToString(x)

\* encodeURIComponent(v): v is converted to a string first.
EncodeURIComponent(x) == EncodeChars(ToString(x))

(***************************************************************************)
(* new RegExp(source) and RegExp.prototype.test, for the pattern syntax    *)
(* the matcher can hold: "\c" is the character c, "." any character, "^"   *)
(* and "$" the input boundaries, "(" opens a group and is a SyntaxError    *)
(* when no ")" closes it, every other character of the alphabet (among     *)
(* them "{" and "}" around a name) stands for itself.                      *)
(***************************************************************************)
RECURSIVE ParseAtoms(_)
ParseAtoms(src) ==
    IF src = <<>> THEN [ok |-> TRUE, atoms |-> <<>>]
    ELSE LET c == Head(src) IN
         IF c = "\\" THEN
            IF Len(src) = 1 THEN [ok |-> FALSE, atoms |-> <<>>]
            ELSE LET rest == ParseAtoms(SubSeq(src, 3, Len(src)))
                 IN  [ok |-> rest.ok, atoms |-> <<[kind |-> "char", c |-> src[2]]>> \o rest.atoms]
         ELSE IF c = "(" THEN [ok |-> FALSE, atoms |-> <<>>]
         ELSE LET rest == ParseAtoms(Tail(src))
                  atom == CASE c = "^" -> [kind |-> "bol", c |-> c]
                            [] c = "$" -> [kind |-> "eol", c |-> c]
                            [] c = "." -> [kind |-> "any", c |-> c]
                            [] OTHER   -> [kind |-> "char", c |-> c]
              IN  [ok |-> rest.ok, atoms |-> <<atom>> \o rest.atoms]

\* new RegExp(source): ok = FALSE is the SyntaxError the constructor throws.
RegExp(source) ==
    LET parsed == ParseAtoms(source)
    IN  [source |-> source, ok |-> parsed.ok, atoms |-> parsed.atoms]

RECURSIVE MatchAt(_, _, _)
MatchAt(atoms, s, pos) ==
    IF atoms = <<>> THEN TRUE
    ELSE LET a == Head(atoms) IN
         CASE a.kind = "bol"  -> pos = 1 /\ MatchAt(Tail(atoms), s, pos)
           [] a.kind = "eol"  -> pos = Len(s) + 1 /\ MatchAt(Tail(atoms), s, pos)
           [] a.kind = "any"  -> pos <= Len(s) /\ MatchAt(Tail(atoms), s, pos + 1)
           [] a.kind = "char" -> pos <= Len(s) /\ s[pos] = a.c /\ MatchAt(Tail(atoms), s, pos + 1)

\* regexp.test(s): a match starting at any position.
RegExpTest(re, s) ==
    re.ok /\ \E start \in 1..(Len(s) + 1) : MatchAt(re.atoms, s, start)


(***************************************************************************)
(* MockApi.                                                                *)
(***************************************************************************)
\* (acc, [k, v]) => acc.replace(`{${k}}`, encodeURIComponent(v))
RECURSIVE ReducePathParam(_, _)
ReducePathParam(entries, acc) ==
    IF entries = <<>> THEN acc
    ELSE ReducePathParam(
            Tail(entries),
            StringReplace(acc, <<"{">> \o Head(entries)[1] \o <<"}">>,
                          EncodeURIComponent(Head(entries)[2])))

\* const pathString = Object.entries(pathParam || []).reduce(..., path.replaceAll("/", "\\/"))
PathString(path, pathParam) ==
    ReducePathParam(Entries(pathParam), EscapeSlashes(ToString(path)))

\* Object.entries(query).map(([param, value]) => `${param}=${value}`).join("&")
mkQParams(query) ==
    Join([n \in 1..Len(query.e) |-> query.e[n][1] \o <<"=">> \o ToString(query.e[n][2])],
         <<"&">>)

\* A faulty variant: no end anchor when there is no query.
QuerySuffixUnanchored(query) ==
    IF query = Undefined THEN <<>>
    ELSE <<"\\", "?">> \o mkQParams(query) \o <<"$">>

\* query === undefined ? "$" : `\\?${mkQParams(query!)}$`
QuerySuffix(query) ==
    IF query = Undefined THEN <<"$">>
    ELSE <<"\\", "?">> \o mkQParams(query) \o <<"$">>

\* `^${process.env.BASE_URL}${pathString}${...}`
MatcherSource(base, pathString, query) ==
    <<"^">> \o ToString(base) \o pathString \o QuerySuffix(query)

\* A faulty variant: a status of 200 stands in for a missing one.
FulfillStatusDefaulted(status) ==
    IF status.t = "number" THEN status ELSE Num(<<"2", "0", "0">>)

\* status: typeof status === "number" ? status : undefined
FulfillStatus(status) == IF status.t = "number" THEN status ELSE Undefined

\* A faulty variant: the handlers share the variables of the latest registration.
HandlerLatest(rts, k) ==
    [path |-> rts[Len(rts)].path, json |-> rts[Len(rts)].json,
     status |-> FulfillStatus(rts[Len(rts)].status)]

\* The handler of the k-th route: route.fulfill({ path, json, status: ... })
\* with the path, json and status its registration captured.
Handler(rts, k) ==
    [path |-> rts[k].path, json |-> rts[k].json, status |-> FulfillStatus(rts[k].status)]

(***************************************************************************)
(* Inputs.                                                                 *)
(***************************************************************************)
\* Registrations per page when two routes are told apart.
MaxRoutes == 2

\* Registrations per page when each matcher is looked at on its own.
MaxMatchRoutes == 1

BaseH == <<"h">>

PathPX == <<"/", "p", "/", "x">>

PathPI == <<"/", "p", "/", "{", "i", "}">>

PathIJ == <<"/", "{", "i", "}", "/", "{", "j", "}">>

Paths == {PathPX, PathPI, PathIJ}

KeyI == <<"i">>

KeyJ == <<"j">>

PathParams ==
    { Undefined,
      Obj(<< <<KeyI, Str(<<"x">>)>> >>),
      Obj(<< <<KeyI, Str(<<"a", " ", "b">>)>> >>),
      Obj(<< <<KeyI, Str(<<"a", "/", "b">>)>> >>),
      Obj(<< <<KeyI, Str(<<".">>)>> >>),
      Obj(<< <<KeyI, Str(<<"(">>)>> >>),
      Obj(<< <<KeyJ, Num(<<"4", "2">>)>>, <<KeyI, Str(<<"p">>)>> >>) }

Queries ==
    { Undefined,
      Obj(<< <<<<"a">>, Num(<<"1">>)>>, <<<<"b">>, Num(<<"2">>)>> >>),
      Obj(<< <<<<"a">>, Str(<<".">>)>> >>) }

JsonArray == Json(<<"[", "2", "]">>)

JsonObject == Json(<<"{", "0", "}">>)

Jsons == {Undefined, JsonArray, JsonObject}

Statuses == {Undefined, Num(<<"4", "0", "4">>), Str(<<"d", "e", "f">>)}

Methods == {Undefined, Str(<<"p", "o", "s", "t">>)}

EnvValues == {Undefined, Str(BaseH)}

\* Descriptors that vary in what decides the matcher.
MatchDescriptors ==
    { [path |-> Str(p), method |-> Undefined, status |-> Undefined, json |-> JsonArray,
       query |-> q, pathParam |-> pp] : p \in Paths, q \in Queries, pp \in PathParams }

\* Descriptors that vary in what decides the fulfilment.
ResponseDescriptors ==
    { [path |-> Str(PathPX), method |-> Undefined, status |-> s, json |-> j,
       query |-> Undefined, pathParam |-> Undefined] :
         s \in Statuses, j \in Jsons }

\* Descriptors of two mocks on one page: the get and the post mock of one
\* path, and a path with a placeholder next to a path without.
PairDescriptors ==
    { [path |-> Str(PathPX), method |-> m, status |-> Undefined,
       json |-> (IF m = Undefined THEN JsonArray ELSE JsonObject),
       query |-> Undefined, pathParam |-> Undefined] : m \in Methods }
    \cup
    { [path |-> Str(PathPI), method |-> Undefined, status |-> Undefined, json |-> JsonArray,
       query |-> Undefined, pathParam |-> Obj(<< <<KeyI, Str(v)>> >>)] :
         v \in {<<"x">>, <<".">>, <<"y">>} }

\* MockApi(page, "/pets", { status: 200, json: [...] }): the path as the second argument.
PositionalArgs == {Str(p) : p \in Paths}

PositionalOptions ==
    { [status |-> Num(<<"2", "0", "0">>), json |-> JsonArray] }

RequestMethods == {"GET", "POST"}

RequestUrls ==
    { BaseH \o PathPX,
      Undefined.v \o PathPX,
      BaseH \o PathPX \o <<"?", "a", "=", "1", "&", "b", "=", "2">>,
      BaseH \o PathPX \o <<"?", "b", "=", "2", "&", "a", "=", "1">>,
      BaseH \o PathPX \o <<"?", "a", "=", "x">>,
      BaseH \o PathPX \o <<"?", "a", "=", ".">>,
      BaseH \o PathPX \o <<"/", "z">>,
      BaseH \o PathPI,
      BaseH \o <<"/", "p", "/", "a", "%", "2", "0", "b">>,
      BaseH \o <<"/", "p", "/", "a", "%", "2", "F", "b">>,
      BaseH \o <<"/", "p", "/", ".">>,
      BaseH \o <<"/", "p", "/", "4", "2">> }

\* The requests for the mocks of PathPX alone.
ResponseUrls ==
    { BaseH \o PathPX, Undefined.v \o PathPX, BaseH \o PathPX \o <<"/", "z">> }

PairUrls ==
    { BaseH \o PathPX, BaseH \o <<"/", "p", "/", "y">>, BaseH \o <<"/", "p", "/", ".">> }

(***************************************************************************)
(* State.  env is process.env.BASE_URL; routes is the page's routing table *)
(* (the matcher and the variables its handler captured); registered[k]     *)
(* records the call that registered routes[k]; settled is how the latest   *)
(* MockApi call ended; fulfilled holds the route.fulfill call made for the *)
(* latest request, if any.                                                 *)
(***************************************************************************)
Init ==
    /\ env \in EnvValues
    /\ routes = <<>>
    /\ registered = <<>>
    /\ settled = [call |-> "none", result |-> "none"]
    /\ fulfilled = <<>>

\* process.env.BASE_URL changes between calls.
SetEnv(b) ==
    /\ b # env
    /\ env' = b
    /\ UNCHANGED <<routes, registered, settled, fulfilled>>

\* The body of MockApi for the second argument arg.
MockApiCall(arg, call, cap) ==
    LET path      == Prop(arg, "path")
        status    == Prop(arg, "status")
        json      == Prop(arg, "json")
        query     == Prop(arg, "query")
        pathParam == Prop(arg, "pathParam")
    IN  /\ Len(routes) < cap
        /\ UNCHANGED <<env, fulfilled>>
        /\ IF path.t # "string"
           THEN \* path.replaceAll is read off undefined
                /\ settled' = [call |-> call, result |-> "TypeError"]
                /\ UNCHANGED <<routes, registered>>
           ELSE LET pathString == PathString(path, pathParam)
                    matcher    == RegExp(MatcherSource(env, pathString, query))
                IN  IF ~matcher.ok
                    THEN /\ settled' = [call |-> call, result |-> "SyntaxError"]
                         /\ UNCHANGED <<routes, registered>>
                    ELSE /\ routes' = Append(routes,
                                [matcher |-> matcher, path |-> path, json |-> json,
                                 status |-> status])
                         /\ registered' = Append(registered,
                                [arg |-> arg, base |-> env, pathString |-> pathString])
                         /\ settled' = [call |-> call, result |-> "resolved"]

\* await MockApi(page, { path, ... })
MockApi(d, cap) == MockApiCall(d, "descriptor", cap)

\* await MockApi(page, "/pets", { ... }): the function takes two parameters, so
\* the string is its descriptor and the options object is not read.
MockApiPositional(p, options, cap) == MockApiCall(p, "positional", cap)

\* The page issues a request: the routes are tried from the latest registered
\* to the first, and the first whose matcher tests true runs its handler.
Request(url, method) ==
    LET matching == {k \in 1..Len(routes) : RegExpTest(routes[k].matcher, url)}
    IN  /\ fulfilled' =
              IF matching = {} THEN <<>>
              ELSE LET k == CHOOSE i \in matching : \A j \in matching : j <= i
                   IN  <<[handler |-> k, url |-> url, method |-> method,
                          options |-> Handler(routes, k)]>>
        /\ UNCHANGED <<env, routes, registered, settled>>

Next ==
    \/ \E b \in EnvValues : SetEnv(b)
    \/ \E d \in MatchDescriptors : MockApi(d, MaxMatchRoutes)
    \/ \E p \in PositionalArgs, o \in PositionalOptions : MockApiPositional(p, o, MaxMatchRoutes)
    \/ \E u \in RequestUrls, m \in RequestMethods : Request(u, m)

\* One registration at a time, over every shape of path, pathParam and query.
Spec == Init /\ [][Next]_vars

NextResponse ==
    \/ \E b \in EnvValues : SetEnv(b)
    \/ \E d \in ResponseDescriptors : MockApi(d, MaxRoutes)
    \/ \E p \in PositionalArgs, o \in PositionalOptions : MockApiPositional(p, o, MaxRoutes)
    \/ \E u \in ResponseUrls, m \in RequestMethods : Request(u, m)

\* Several mocks of one path, over every status and json.
SpecResponse == Init /\ [][NextResponse]_vars

NextPair ==
    \/ \E b \in EnvValues : SetEnv(b)
    \/ \E d \in PairDescriptors : MockApi(d, MaxRoutes)
    \/ \E p \in PositionalArgs, o \in PositionalOptions : MockApiPositional(p, o, MaxRoutes)
    \/ \E u \in PairUrls, m \in RequestMethods : Request(u, m)

\* Two mocks on one page that differ in method or in path.
SpecPair == Init /\ [][NextPair]_vars

(***************************************************************************)
(* Properties.  The descriptor and the base URL of registered[k] are what  *)
(* the k-th registration was called with; the definitions below state what *)
(* the specification expects of the matcher and of the fulfilment.         *)
(***************************************************************************)
Range(f) == {f[i] : i \in DOMAIN f}

IsBackslash(c) == c = "\\"

NotBackslash(c) == c # "\\"

\* e is p with each forward slash escaped by a backslash.
IsSlashEscapeOf(e, p) ==
    /\ SelectSeq(e, NotBackslash) = p
    /\ \A i \in 1..Len(e) : e[i] = "/" => (i > 1 /\ e[i - 1] = "\\")
    /\ Len(SelectSeq(e, IsBackslash)) = Cardinality({i \in 1..Len(p) : p[i] = "/"})

EndsWith(s, tail) ==
    Len(s) >= Len(tail) /\ SubSeq(s, Len(s) - Len(tail) + 1, Len(s)) = tail

DescriptorOf(k) == registered[k].arg

BaseOf(k) == registered[k].base.v

SourceOf(k) == routes[k].matcher.source

UrlSuffixes ==
    { <<"?">>, <<"?", "a", "=", "1">>, <<"?", "a", "=", "1", "&", "b", "=", "2">>,
      <<"/">>, <<"/", "z">>, <<"x">>, <<"$">> }

PlainNoQuery(k) ==
    /\ "{" \notin Range(DescriptorOf(k).path.v)
    /\ DescriptorOf(k).query = Undefined

\* C1: for a descriptor whose path has no placeholder and that gives no query,
\* the registered matcher is exactly ^<base><escaped-path>$ with <base> the
\* BASE_URL value at the time of the call; it matches the URL base+path and
\* matches no URL that continues it with a query string or any other suffix.
C1_ExactMatcher ==
    \A k \in 1..Len(routes) :
        PlainNoQuery(k) =>
            LET base == BaseOf(k)
                path == DescriptorOf(k).path.v
                src  == SourceOf(k)
            IN  /\ Len(src) >= Len(base) + 2
                /\ src[1] = "^"
                /\ src[Len(src)] = "$"
                /\ SubSeq(src, 2, Len(base) + 1) = base
                /\ IsSlashEscapeOf(SubSeq(src, Len(base) + 2, Len(src) - 1), path)
                /\ RegExpTest(routes[k].matcher, base \o path)
                /\ \A sfx \in UrlSuffixes :
                       ~RegExpTest(routes[k].matcher, base \o path \o sfx)

\* C1 happens: such a matcher was registered under a base URL that has changed
\* since, and a request has been fulfilled through it.
C1_Witness ==
    \E k \in 1..Len(routes) :
        /\ PlainNoQuery(k)
        /\ registered[k].base # env
        /\ fulfilled # <<>>
        /\ fulfilled[1].handler = k

\* The URL encoding the specification's examples show: a space becomes %20
\* (and a slash %2F), letters, digits and "." stay.
RECURSIVE UrlEncoded(_)
UrlEncoded(s) ==
    IF s = <<>> THEN <<>>
    ELSE (CASE Head(s) = " " -> <<"%", "2", "0">>
            [] Head(s) = "/" -> <<"%", "2", "F">>
            [] OTHER         -> <<Head(s)>>) \o UrlEncoded(Tail(s))

HasEntry(mapping, key) ==
    mapping.t = "object" /\ \E n \in 1..Len(mapping.e) : mapping.e[n][1] = key

ValueOf(mapping, key) ==
    mapping.e[CHOOSE n \in 1..Len(mapping.e) : mapping.e[n][1] = key][2].v

\* The path with every placeholder {key} that has an entry replaced by the
\* URL-encoded value, read from left to right; the others stay.
RECURSIVE Substituted(_, _)
Substituted(p, pathParam) ==
    IF p = <<>> THEN <<>>
    ELSE IF Head(p) = "{" /\ "}" \in Range(p)
         THEN LET close == CHOOSE i \in 1..Len(p) :
                              p[i] = "}" /\ \A j \in 1..(i - 1) : p[j] # "}"
                  key   == SubSeq(p, 2, close - 1)
                  rest  == Substituted(SubSeq(p, close + 1, Len(p)), pathParam)
              IN  IF HasEntry(pathParam, key)
                  THEN UrlEncoded(ValueOf(pathParam, key)) \o rest
                  ELSE SubSeq(p, 1, close) \o rest
         ELSE <<Head(p)>> \o Substituted(Tail(p), pathParam)

\* C2: every {key} of the path that has an entry in pathParam is replaced by
\* the URL-encoded value ("/p/{i}" with i "a b" gives /p/a%20b), and every
\* placeholder without an entry is left in the path untouched.
C2_PathSubstitution ==
    \A k \in 1..Len(routes) :
        LET d == DescriptorOf(k)
        IN  /\ IsSlashEscapeOf(registered[k].pathString, Substituted(d.path.v, d.pathParam))
            /\ (d.path.v = PathPI /\ HasEntry(d.pathParam, KeyI)
                    /\ ValueOf(d.pathParam, KeyI) = <<"a", " ", "b">>)
               => registered[k].pathString
                      = <<"\\", "/", "p", "\\", "/", "a", "%", "2", "0", "b">>

\* C2 happens: a registration filled one of two placeholders with a value
\* that needs encoding and left the other.
C2_Witness ==
    \E k \in 1..Len(routes) :
        /\ DescriptorOf(k).path.v = PathIJ
        /\ HasEntry(DescriptorOf(k).pathParam, KeyI)
        /\ ~HasEntry(DescriptorOf(k).pathParam, KeyJ)
        /\ " " \in Range(ValueOf(DescriptorOf(k).pathParam, KeyI))
        /\ registered[k].pathString
               = <<"\\", "/", "a", "%", "2", "0", "b", "\\", "/", "{", "j", "}">>

\* C7: for any descriptor and any BASE_URL value, set or not, MockApi raises no
\* exception and produces no rejection: the call registers a matcher and resolves.
C7_NeverRejects ==
    settled.call = "descriptor" => settled.result = "resolved"

\* C9: MockApi called as (page, path, options), the path a separate string
\* argument, registers an interception rule for that path and resolves.
C9_PositionalResolves ==
    settled.call = "positional" =>
        /\ settled.result = "resolved"
        /\ routes # <<>>

\* The query string the descriptor of registration k asks for: its key=value
\* pairs joined by "&" in the mapping's order.
PairsOf(k) ==
    LET q == DescriptorOf(k).query
    IN  Join([n \in 1..Len(q.e) |-> q.e[n][1] \o <<"=">> \o q.e[n][2].v], <<"&">>)

\* What follows the first "?" of a URL (a URL without one has no query string).
QueryStringOf(u) ==
    LET marks == {i \in 1..Len(u) : u[i] = "?"}
    IN  IF marks = {} THEN <<>>
        ELSE SubSeq(u, (CHOOSE i \in marks : \A j \in marks : i <= j) + 1, Len(u))

\* C3: with a query mapping the matcher ends with a literal "?", the key=value
\* pairs joined by "&" in the mapping's order and the end anchor, so it matches
\* a request only when the request's query string is exactly those pairs in
\* that order.
C3_ExactQuery ==
    \A k \in 1..Len(routes) :
        DescriptorOf(k).query # Undefined =>
            /\ EndsWith(SourceOf(k), <<"\\", "?">> \o PairsOf(k) \o <<"$">>)
            /\ \A u \in RequestUrls \cup PairUrls :
                   RegExpTest(routes[k].matcher, u) =>
                       ("?" \in Range(u) /\ QueryStringOf(u) = PairsOf(k))

\* The request URL a registration is aimed at: the base, the path with its
\* parameters substituted, and the query string when there is one.
TargetOf(k) ==
    BaseOf(k) \o SelectSeq(registered[k].pathString, NotBackslash)
        \o (IF DescriptorOf(k).query = Undefined THEN <<>> ELSE <<"?">> \o PairsOf(k))

\* C4: two registrations under the same base URL whose paths differ do not
\* cross-match: the request URL one descriptor is aimed at is not matched by
\* the other descriptor's matcher.  (Stated for registrations aimed at
\* different URLs: a placeholder filled with "x" makes "/p/{i}" and "/p/x" the
\* same request, which either matcher has to match.)
C4_NoCrossMatch ==
    \A k1, k2 \in 1..Len(routes) :
        (/\ k1 # k2
         /\ registered[k1].base = registered[k2].base
         /\ DescriptorOf(k1).path # DescriptorOf(k2).path
         /\ TargetOf(k1) # TargetOf(k2))
        => ~RegExpTest(routes[k2].matcher, TargetOf(k1))

\* The descriptor whose handler made the fulfilment call.
FulfilledFor(f) == DescriptorOf(f.handler)

\* C5: when the descriptor gives no status the fulfilment call carries no
\* status; when it gives a numeric status the call carries exactly that status.
C5_StatusPassed ==
    \A n \in 1..Len(fulfilled) :
        LET f == fulfilled[n]
            d == FulfilledFor(f)
        IN  /\ d.status = Undefined => f.options.status = Undefined
            /\ d.status.t = "number" => f.options.status = d.status

\* C5 happens: a request was fulfilled for a descriptor without a status while
\* a descriptor with a numeric status is registered too.
C5_Witness ==
    /\ fulfilled # <<>>
    /\ FulfilledFor(fulfilled[1]).status = Undefined
    /\ \E k \in 1..Len(routes) : DescriptorOf(k).status.t = "number"

\* C6: every fulfilment call carries exactly the json value of the descriptor
\* its handler was registered with, whatever was registered or fulfilled before.
C6_JsonPassed ==
    \A n \in 1..Len(fulfilled) :
        fulfilled[n].options.json = FulfilledFor(fulfilled[n]).json

\* C6 happens: the first of two registrations fulfilled a request with its array
\* body after a second descriptor with another body was registered.
C6_Witness ==
    /\ Len(routes) = 2
    /\ fulfilled # <<>>
    /\ fulfilled[1].handler = 1
    /\ DescriptorOf(1).json = JsonArray
    /\ DescriptorOf(2).json = JsonObject
    /\ fulfilled[1].options.json = JsonArray

\* The HTTP method a descriptor mocks: get when it names none.
MockedMethod(d) ==
    IF d.method = Undefined THEN "GET"
    ELSE IF d.method.v = <<"p", "o", "s", "t">> THEN "POST"
    ELSE "OTHER"

\* C8: a mock registered with method M (get when omitted) fulfils a matched
\* request only when the request's HTTP method is M.
C8_MethodRespected ==
    \A n \in 1..Len(fulfilled) :
        fulfilled[n].method = MockedMethod(FulfilledFor(fulfilled[n]))

\* C10: the fulfilment call supplies the descriptor's json and status and
\* nothing else: no other field of the descriptor is passed to route.fulfill.
C10_OnlyJsonAndStatus ==
    \A n \in 1..Len(fulfilled) :
        \A key \in DOMAIN fulfilled[n].options \ {"json", "status"} :
            fulfilled[n].options[key] = Undefined

====
